---- MODULE Spec2Model ----
(***************************************************************************)
(* A model of uberwriter's PandocSourceMapper                              *)
(* (src/uberwriter/pandoc_source_mapper.py): the text locator (__find,     *)
(* __find_unescaped), the line utilities (__get_line), and the tree        *)
(* walker (walk_multiple, walk_one and the per-tag walkers).               *)
(*                                                                         *)
(* A text is a sequence of characters; a character is a one-element token  *)
(* (a string).  Offsets are Python's 0-based offsets; Python's indexing    *)
(* and slicing rules (negative indices count from the end, slices clamp,   *)
(* an index out of range raises IndexError) are modelled explicitly.       *)
(***************************************************************************)
EXTENDS Integers, Sequences, FiniteSets, TLC

VARIABLES
    text,         \* self.text
    mode,         \* which entry point of the mapper this behaviour exercises
    \* ---- the text locator
    sub,          \* argument sub of __find / __find_unescaped
    fstart,       \* argument start (an offset)
    fend,         \* argument end: <<>> for None, <<j>> for the offset j
    fpc,          \* position of the locator call: "call", "loop", "done"
    index,        \* __find_unescaped: local index (position in sub)
    start_match,  \* __find_unescaped: local start_match
    fi,           \* __find_unescaped: local i (position in text)
    fret,         \* returned pair <<start, end>>
    fplain,       \* what __find returned for the same arguments
    \* ---- the tree walker
    blocks,       \* the parse tree: the entries walk() hands to walk_multiple
    pc,           \* position of walk(): "walk", "done", "crashed"
    wi,           \* the outermost walk_multiple: loop counter i
    wloc,         \* the outermost walk_multiple: locals start, end, results; seen
    ret,          \* what the outermost walk_multiple returned: <<start, end>>
    results,      \* self.results
    warnings,     \* the warnings raised so far, oldest first
    calls,        \* one record per completed walk_multiple call (observation)
    scn,          \* the scenario the text and tree were built from (observation)
    \* ---- the line utilities
    lindex,       \* argument index of __get_line / _before / _after
    lpc,          \* position of the line-utility calls
    lline,        \* what __get_line(index) returned: <<start_line, end_line>>
    lbefore,      \* what __get_line_before(index) returned
    lafter        \* what __get_line_after(index) returned

fvars == <<sub, fstart, fend, fpc, index, start_match, fi, fret, fplain>>
wvars == <<blocks, pc, wi, wloc, ret, results, warnings, calls, scn>>
lvars == <<lindex, lpc, lline, lbefore, lafter>>
vars == <<text, mode, fvars, wvars, lvars>>

-----------------------------------------------------------------------------
(* Bounds of the model.                                                    *)

MaxTextLen == 3
MaxSubLen == 2
MaxLineText == 4

-----------------------------------------------------------------------------
(* Python's str primitives over self.text.                                 *)

\* The sequences over S of length at most n.
SeqsUpTo(S, n) == UNION {[1..m -> S] : m \in 0..n}

Max(a, b) == IF a >= b THEN a ELSE b
Min(a, b) == IF a <= b THEN a ELSE b

\* str.isspace() for one character.
Whitespace == {" ", "\t", "\n", "\r", "\f", "NBSP"}
isspace(c) == c \in Whitespace

\* Python's slice adjustment of a start or end offset of a string of length n.
AdjustIndex(k, n) == IF k < 0 THEN Max(k + n, 0) ELSE k

\* txt[k] is defined (no IndexError) for -len <= k < len.
InRange(txt, k) == k >= 0 - Len(txt) /\ k < Len(txt)
CharAt(txt, k) == IF k < 0 THEN txt[k + Len(txt) + 1] ELSE txt[k + 1]

\* txt[a:b]
Slice(txt, a, b) ==
    SubSeq(txt, Min(AdjustIndex(a, Len(txt)), Len(txt)) + 1,
           Min(AdjustIndex(b, Len(txt)), Len(txt)))

\* The characters of a string.
Chars(s) == {s[q] : q \in 1..Len(s)}

\* txt[a:]
SliceFrom(txt, a) == Slice(txt, a, Len(txt))

\* prefix occurs in txt at offset k >= 0.
MatchAt(txt, prefix, k) ==
    /\ k + Len(prefix) <= Len(txt)
    /\ \A q \in 1..Len(prefix) : txt[k + q] = prefix[q]

\* txt.startswith(prefix, from)
startswith(txt, prefix, from) == MatchAt(txt, prefix, AdjustIndex(from, Len(txt)))

\* The least and the greatest element of a set of integers, or d when the
\* set is empty.
LeastOr(S, d) == IF S = {} THEN d ELSE CHOOSE k \in S : \A m \in S : k <= m
GreatestOr(S, d) == IF S = {} THEN d ELSE CHOOSE k \in S : \A m \in S : k >= m

\* The end of a search range: to = <<>> stands for None.
RangeEnd(txt, to) ==
    IF to = <<>> THEN Len(txt) ELSE Min(AdjustIndex(to[1], Len(txt)), Len(txt))

\* txt.find(s, from, to)
str_find(txt, s, from, to) ==
    LeastOr({k \in AdjustIndex(from, Len(txt))..(RangeEnd(txt, to) - Len(s)) :
                 MatchAt(txt, s, k)}, 0 - 1)

\* txt.rfind(s, 0, to)
str_rfind(txt, s, to) ==
    GreatestOr({k \in 0..(RangeEnd(txt, <<to>>) - Len(s)) : MatchAt(txt, s, k)}, 0 - 1)

\* string.split(): the whitespace-delimited tokens of a string.
RECURSIVE split(_)
split_at(s, cut) == <<SubSeq(s, 1, cut - 1)>> \o split(SubSeq(s, cut, Len(s)))
split(s) ==
    IF s = <<>> THEN <<>>
    ELSE IF isspace(Head(s)) THEN split(Tail(s))
    ELSE split_at(s, LeastOr({k \in 1..Len(s) : isspace(s[k])}, Len(s) + 1))

-----------------------------------------------------------------------------
(* The escape table: <<key, decoded character>> in the table's order.      *)

escape_table ==
    << <<<<"\\", "\\">>, "\\">>,
       <<<<"\\", "BACKTICK">>, "BACKTICK">>,
       <<<<"\\", "*">>, "*">>,
       <<<<"\\", "_">>, "_">>,
       <<<<"\\", "{">>, "{">>,
       <<<<"\\", "}">>, "}">>,
       <<<<"\\", "[">>, "[">>,
       <<<<"\\", "]">>, "]">>,
       <<<<"\\", "(">>, "(">>,
       <<<<"\\", ")">>, ")">>,
       <<<<"\\", "#">>, "#">>,
       <<<<"\\", "+">>, "+">>,
       <<<<"\\", "-">>, "-">>,
       <<<<"\\", ".">>, ".">>,
       <<<<"\\", "!">>, "!">>,
       <<<<"\\", "~">>, "~">>,
       <<<<"\\", "\"">>, "\"">>,
       <<<<"\\", "<">>, "<">>,
       <<<<"\\", ">">>, ">">>,
       <<<<"\\", "\n">>, "\n">>,
       <<<<" ">>, "NBSP">>,
       <<<<"&", "a", "m", "p", ";">>, "&">>,
       <<<<"&", "l", "t", ";">>, "<">>,
       <<<<"&", "g", "t", ";">>, ">">>,
       <<<<"&", "n", "b", "s", "p", ";">>, " ">>,
       <<<<"&", "i", "e", "x", "c", "l", ";">>, "U+00A1">>,
       <<<<"&", "c", "e", "n", "t", ";">>, "U+00A2">>,
       <<<<"&", "p", "o", "u", "n", "d", ";">>, "U+00A3">>,
       <<<<"&", "c", "u", "r", "r", "e", "n", ";">>, "U+00A4">>,
       <<<<"&", "y", "e", "n", ";">>, "U+00A5">>,
       <<<<"&", "b", "r", "v", "b", "a", "r", ";">>, "U+00A6">>,
       <<<<"&", "s", "e", "c", "t", ";">>, "U+00A7">>,
       <<<<"&", "u", "m", "l", ";">>, "U+00A8">>,
       <<<<"&", "c", "o", "p", "y", ";">>, "U+00A9">>,
       <<<<"&", "o", "r", "d", "f", ";">>, "U+00AA">>,
       <<<<"&", "l", "a", "q", "u", "o", ";">>, "U+00AB">>,
       <<<<"&", "n", "o", "t", ";">>, "U+00AC">>,
       <<<<"&", "s", "h", "y", ";">>, "U+00AD">>,
       <<<<"&", "r", "e", "g", ";">>, "U+00AE">>,
       <<<<"&", "m", "a", "c", "r", ";">>, "U+00AF">>,
       <<<<"&", "d", "e", "g", ";">>, "U+00B0">>,
       <<<<"&", "p", "l", "u", "s", "m", "n", ";">>, "U+00B1">>,
       <<<<"&", "s", "u", "p", "2", ";">>, "U+00B2">>,
       <<<<"&", "s", "u", "p", "3", ";">>, "U+00B3">>,
       <<<<"&", "a", "c", "u", "t", "e", ";">>, "U+00B4">>,
       <<<<"&", "m", "i", "c", "r", "o", ";">>, "U+00B5">>,
       <<<<"&", "p", "a", "r", "a", ";">>, "U+00B6">>,
       <<<<"&", "m", "i", "d", "d", "o", "t", ";">>, "U+00B7">>,
       <<<<"&", "c", "e", "d", "i", "l", ";">>, "U+00B8">>,
       <<<<"&", "s", "u", "p", "1", ";">>, "U+00B9">>,
       <<<<"&", "o", "r", "d", "m", ";">>, "U+00BA">>,
       <<<<"&", "r", "a", "q", "u", "o", ";">>, "U+00BB">>,
       <<<<"&", "f", "r", "a", "c", "1", "4", ";">>, "U+00BC">>,
       <<<<"&", "f", "r", "a", "c", "1", "2", ";">>, "U+00BD">>,
       <<<<"&", "f", "r", "a", "c", "3", "4", ";">>, "U+00BE">>,
       <<<<"&", "i", "q", "u", "e", "s", "t", ";">>, "U+00BF">>,
       <<<<"&", "t", "i", "m", "e", "s", ";">>, "U+00D7">>,
       <<<<"&", "d", "i", "v", "i", "d", "e", ";">>, "U+00F7">>,
       <<<<"&", "E", "T", "H", ";">>, "U+00D0">>,
       <<<<"&", "e", "t", "h", ";">>, "U+00F0">>,
       <<<<"&", "T", "H", "O", "R", "N", ";">>, "U+00DE">>,
       <<<<"&", "t", "h", "o", "r", "n", ";">>, "U+00FE">>,
       <<<<"&", "A", "E", "l", "i", "g", ";">>, "U+00C6">>,
       <<<<"&", "a", "e", "l", "i", "g", ";">>, "U+00E6">>,
       <<<<"&", "O", "E", "l", "i", "g", ";">>, "U+0152">>,
       <<<<"&", "o", "e", "l", "i", "g", ";">>, "U+0153">>,
       <<<<"&", "A", "r", "i", "n", "g", ";">>, "U+00C5">>,
       <<<<"&", "O", "s", "l", "a", "s", "h", ";">>, "U+00D8">>,
       <<<<"&", "C", "c", "e", "d", "i", "l", ";">>, "U+00C7">>,
       <<<<"&", "c", "c", "e", "d", "i", "l", ";">>, "U+00E7">>,
       <<<<"&", "s", "z", "l", "i", "g", ";">>, "U+00DF">>,
       <<<<"&", "N", "t", "i", "l", "d", "e", ";">>, "U+00D1">>,
       <<<<"&", "n", "t", "i", "l", "d", "e", ";">>, "U+00F1">> >>

escape_table_keys == [k \in 1..Len(escape_table) |-> escape_table[k][1]]
escape_table_values == {escape_table[k][2] : k \in 1..Len(escape_table)}

-----------------------------------------------------------------------------
(* The text locator.                                                       *)

NotFound == <<0 - 1, 0 - 1>>

\* Lines 503-505: the pair __find returns for what str.find returned.
found(s, at) == IF at >= 0 THEN <<at, at + Len(s)>> ELSE <<at, at>>

\* __find(sub, start, end)
find(s, from, to) == found(s, str_find(text, s, from, to))

\* The end bound __find_unescaped works with: len(self.text) for None.
fu_end(to) == IF to = <<>> THEN Len(text) ELSE to[1]

\* The guard of __find_unescaped: the range is invalid.
fu_invalid_range(from, to) ==
    from > fu_end(to) \/ from < 0 \/ fu_end(to) > Len(text)

\* len(c) for key number k of the table; -1 for k = 0 (no key).
fu_key_len(k) == IF k = 0 THEN 0 - 1 ELSE Len(escape_table_keys[k])

\* The inner for loop: the length of the first escape-table key the text
\* starts with at offset i, or -1 when it starts with none.
fu_escape_increment(i) ==
    fu_key_len(LeastOr({k \in 1..Len(escape_table) :
                           startswith(SliceFrom(text, i), escape_table_keys[k], 0)}, 0))

\* The increment one iteration of the while loop computes.
fu_increment(s, idx, sm, i) ==
    IF CharAt(text, i) = s[idx + 1] THEN 1
    ELSE IF sm # 0 - 1 /\ CharAt(text, i) = "\r" THEN 0
    ELSE IF s[idx + 1] \in escape_table_values THEN fu_escape_increment(i)
    ELSE 0 - 1

\* The iteration with the reset of lines 545-547 resuming at start_match
\* itself: line 549 skipped after a reset.
fu_advance_again(s, q, inc) ==
    IF inc > 0
    THEN IF q.index + 1 = Len(s)
         THEN [index |-> q.index + 1,
               start_match |-> IF q.start_match = 0 - 1 THEN q.i ELSE q.start_match,
               i |-> q.i, done |-> TRUE,
               ret |-> <<IF q.start_match = 0 - 1 THEN q.i ELSE q.start_match,
                         q.i + inc>>]
         ELSE [index |-> q.index + 1,
               start_match |-> IF q.start_match = 0 - 1 THEN q.i ELSE q.start_match,
               i |-> q.i + Max(1, inc), done |-> FALSE, ret |-> NotFound]
    ELSE IF inc < 0 /\ q.start_match >= 0
    THEN [index |-> 0, start_match |-> 0 - 1,
          i |-> q.start_match, done |-> FALSE, ret |-> NotFound]
    ELSE [index |-> q.index, start_match |-> q.start_match,
          i |-> q.i + Max(1, inc), done |-> FALSE, ret |-> NotFound]

\* Lines 538-549: what one iteration does with its increment; q holds the
\* locals [index, start_match, i], done is set when the iteration returns.
fu_advance(s, q, inc) ==
    IF inc > 0
    THEN IF q.index + 1 = Len(s)
         THEN [index |-> q.index + 1,
               start_match |-> IF q.start_match = 0 - 1 THEN q.i ELSE q.start_match,
               i |-> q.i, done |-> TRUE,
               ret |-> <<IF q.start_match = 0 - 1 THEN q.i ELSE q.start_match,
                         q.i + inc>>]
         ELSE [index |-> q.index + 1,
               start_match |-> IF q.start_match = 0 - 1 THEN q.i ELSE q.start_match,
               i |-> q.i + Max(1, inc), done |-> FALSE, ret |-> NotFound]
    ELSE IF inc < 0 /\ q.start_match >= 0
    THEN [index |-> 0, start_match |-> 0 - 1,
          i |-> q.start_match + Max(1, inc), done |-> FALSE, ret |-> NotFound]
    ELSE [index |-> q.index, start_match |-> q.start_match,
          i |-> q.i + Max(1, inc), done |-> FALSE, ret |-> NotFound]

\* One iteration of the while loop of __find_unescaped.
fu_step(s, q) == fu_advance(s, q, fu_increment(s, q.index, q.start_match, q.i))

\* The locals on entry to the while loop.
fu_first(from) ==
    [index |-> 0, start_match |-> 0 - 1, i |-> from, done |-> FALSE, ret |-> NotFound]

RECURSIVE fu_loop(_, _, _)
fu_loop(s, en, q) ==
    IF q.done THEN q.ret
    ELSE IF q.i < en THEN fu_loop(s, en, fu_step(s, q))
    ELSE NotFound

\* __find_unescaped(sub, start, end)
find_unescaped(s, from, to) ==
    IF fu_invalid_range(from, to) THEN NotFound
    ELSE IF s = <<>> THEN <<from, from>>
    ELSE fu_loop(s, fu_end(to), fu_first(from))

-----------------------------------------------------------------------------
(* The line utilities.                                                     *)

\* Lines 566-569: the line that starts at start_line.
line_from(start_line, end_line) ==
    <<start_line, IF end_line < 0 THEN Len(text) ELSE end_line>>

\* The line whose first character is at start_line.
line_at(start_line) == line_from(start_line, str_find(text, <<"\n">>, start_line, <<>>))

\* __get_line(index)
get_line(k) == line_at(str_rfind(text, <<"\n">>, k) + 1)

\* __get_line_before as the line containing index - 1, clamped at 0.
get_line_before_same(k) == get_line(Max(k - 1, 0))

\* __get_line_before(index)
get_line_before(k) == get_line(Max(get_line(k)[1] - 1, 0))

\* __get_line_after(index)
get_line_after(k) == get_line(Min(get_line(k)[2] + 1, Len(text) - 1))

-----------------------------------------------------------------------------
(* The regular expressions of the class, as matchers.                      *)

\* The first k characters of s are whitespace (\s).
LeadingSpaces(s, k) == k <= Len(s) /\ \A q \in 1..k : isspace(s[q])

\* code_block_delim.match(line): ^\s{0,3}[`~]{3,}
code_block_delim(line) ==
    \E k \in 0..3 :
        /\ LeadingSpaces(line, k)
        /\ k + 3 <= Len(line)
        /\ \A q \in (k + 1)..(k + 3) : line[q] \in {"BACKTICK", "~"}

\* header_setext_delim.match(line): ^\s{0,3}(?:-+|=+)\s*$
header_setext_delim(line) ==
    \E k \in 0..3 : \E m \in (k + 1)..Len(line) : \E c \in {"-", "="} :
        /\ LeadingSpaces(line, k)
        /\ \A q \in (k + 1)..m : line[q] = c
        /\ \A q \in (m + 1)..Len(line) : isspace(line[q])

\* table_delim.match(line): ^\s{0,3}(?:[-\s]+|[-+:]+)\s*$
table_delim(line) ==
    \E k \in 0..3 : \E m \in (k + 1)..Len(line) :
        /\ LeadingSpaces(line, k)
        /\ \/ \A q \in (k + 1)..m : line[q] = "-" \/ isspace(line[q])
           \/ \A q \in (k + 1)..m : line[q] \in {"-", "+", ":"}
        /\ \A q \in (m + 1)..Len(line) : isspace(line[q])

\* footnote_identifier.match(s): \[\^[^\s]+\] ; the matched text, or <<>>
\* when there is no match.  [^\s]+ is greedy: the match ends at the last "]"
\* of the run of non-whitespace characters that follows "[^".
footnote_identifier(s) ==
    IF ~startswith(s, <<"[", "^">>, 0) THEN <<>>
    ELSE SubSeq(s, 1, GreatestOr(
             {k \in 4..(LeastOr({j \in 3..Len(s) : isspace(s[j])}, Len(s) + 1) - 1) :
                  s[k] = "]"}, 0))

\* re.search("^\s{0,3}" + re.escape(ident) + ": ", text, re.MULTILINE).start(),
\* or -1 when there is no match.
footnote_definition(ident) ==
    LeastOr({p \in 0..Len(text) :
                /\ p = 0 \/ text[p] = "\n"
                /\ \E k \in 0..3 :
                      /\ LeadingSpaces(SliceFrom(text, p), k)
                      /\ MatchAt(text, ident \o <<":", " ">>, p + k)}, 0 - 1)

-----------------------------------------------------------------------------
(* The while loops over self.text.  Each returns [err, at]: err is TRUE    *)
(* when the loop indexes the text out of range (IndexError), at is the     *)
(* index the loop stops at.                                                *)

\* The loop condition on the character c.
Holds(cond, c) ==
    CASE cond = "space" -> isspace(c)
      [] cond = "nonspace" -> ~isspace(c)
      [] cond = "not[" -> c # "["
      [] cond = "not]" -> c # "]"

\* while cond(self.text[k]): k += step
RECURSIVE scan(_, _, _)
scan(cond, k, step) ==
    IF ~InRange(text, k) THEN [err |-> TRUE, at |-> k]
    ELSE IF Holds(cond, CharAt(text, k)) THEN scan(cond, k + step, step)
    ELSE [err |-> FALSE, at |-> k]

\* while start >= 0 and self.text[start] != "[": start -= 1
RECURSIVE scan_open_bracket(_)
scan_open_bracket(k) ==
    IF k < 0 THEN [err |-> FALSE, at |-> k]
    ELSE IF ~InRange(text, k) THEN [err |-> TRUE, at |-> k]
    ELSE IF CharAt(text, k) # "[" THEN scan_open_bracket(k - 1)
    ELSE [err |-> FALSE, at |-> k]

-----------------------------------------------------------------------------
(* The parse tree.  A node is a record with the fields                     *)
(*   t: the tag ("t" of the Pandoc node);                                  *)
(*   s: its string (Str, Code, Math, CodeBlock, Raw*, a citationId);       *)
(*   k: its child entries, a sequence of nodes; a nested list [[..]] is a  *)
(*      sequence of "List" nodes, each holding one inner list in k;        *)
(*   u, v: the url and title of a Link or Image target;                    *)
(*   a: a tag-valued attribute (the Math type, the citationMode, the       *)
(*      identifier of a Div);                                              *)
(*   n: the level of a Header.                                             *)
(***************************************************************************)

Node(t, s, k, u, v, a, n) == [t |-> t, s |-> s, k |-> k, u |-> u, v |-> v, a |-> a, n |-> n]

\* self.block_types, self.inline_types, self.types (the keys)
block_types == {"Plain", "Para", "LineBlock", "CodeBlock", "RawBlock", "BlockQuote",
                "OrderedList", "BulletList", "DefinitionList", "Header",
                "HorizontalRule", "Table", "Div", "Null"}
inline_types == {"Str", "Emph", "Strong", "Strikeout", "Superscript", "Subscript",
                 "SmallCaps", "Quoted", "Cite", "Code", "Space", "SoftBreak",
                 "LineBreak", "Math", "RawInline", "Link", "Image", "Note", "Span"}
types == block_types \cup inline_types

non_spaced_types == {"Str", "Emph", "Strong", "Strikeout", "Superscript", "Subscript",
                     "SmallCaps", "Quoted", "Cite", "Code", "Math", "RawInline", "Link",
                     "Image", "Note", "Span"}

paragraph_types == {"Para", "LineBlock", "CodeBlock", "BlockQuote", "OrderedList",
                    "BulletList", "DefinitionList", "Header", "HorizontalRule",
                    "Table", "Div"}

\* math_delims: the length of the delimiter of a Math type.
math_delims(a) == IF a = "DisplayMath" THEN 2 ELSE 1

\* smallcaps_delims
smallcaps_delims ==
    << << <<"[">>, <<"]", "{", ".", "s", "m", "a", "l", "l", "c", "a", "p", "s", "}">> >>,
       << <<"<", "s", "p", "a", "n", " ">>, <<"<", "/", "s", "p", "a", "n", ">">> >> >>

-----------------------------------------------------------------------------
(* The walker.  Its effects (self.results, the warnings, an IndexError     *)
(* that ends the walk) are threaded through the walk functions as w; every *)
(* walk function returns [start, end, extras, w].                          *)

NoExtras == [x \in {} |-> 0]

Out(s, e, x, w) == [start |-> s, end |-> e, extras |-> x, w |-> w]

\* warnings.warn(...)
Warn(w, kind, t) == [w EXCEPT !.warnings = Append(@, [kind |-> kind, type |-> t])]

\* An IndexError propagates out of walk().
Raise(w) == Out(0, 0, NoExtras, [w EXCEPT !.err = TRUE])

\* Result(type, start, end, extras)
Result(t, s, e, x) == [type |-> t, start |-> s, end |-> e, extras |-> x]

\* __is_last_result_ordered(results)
is_last_result_ordered(rs) ==
    ~ \/ rs[Len(rs)].type = "Div" /\ "identifier" \in DOMAIN rs[Len(rs)].extras
                                  /\ rs[Len(rs)].extras.identifier = "refs"
      \/ rs[Len(rs)].type = "Note" /\ "type" \in DOMAIN rs[Len(rs)].extras
                                   /\ rs[Len(rs)].extras.type = "footnote"
      \/ \E p \in 1..(Len(rs) - 1) :
             /\ rs[p].type = "SoftBreak"
             /\ "\n" \notin Chars(Slice(text, rs[p].start, rs[p].end))

\* What a walk function does with f, what the locator returned for the
\* node's text: w.misses counts the searches that returned (-1, -1).
Located(w, f) == IF f = NotFound THEN [w EXCEPT !.misses = @ + 1] ELSE w

\* The loop shared by walk_code_block and walk_code: locate each token in
\* turn from the end of the one before; c holds the start of the first
\* token, the end of the last one and w.
RECURSIVE find_tokens(_, _, _)
find_next_token(tokens, i, c, f) ==
    find_tokens(tokens, i + 1,
                [start |-> IF i = 0 THEN f[1] ELSE c.start, end |-> f[2],
                 w |-> Located(c.w, f)])
find_tokens(tokens, i, c) ==
    IF i >= Len(tokens) THEN c
    ELSE find_next_token(tokens, i, c, find(tokens[i + 1], c.end, <<>>))

\* Lines 314-319: the span of a code block whose content is at c, given the
\* lines before and after it.
code_block_span(c, before, after) ==
    IF /\ code_block_delim(Slice(text, before[1], before[2]))
       /\ code_block_delim(Slice(text, after[1], after[2]))
    THEN Out(before[1], after[2], [content_start |-> c.start, content_end |-> c.end], c.w)
    ELSE Out(c.start, c.end, [content_start |-> c.start, content_end |-> c.end], c.w)

\* Lines 312-313: the lines around the content.
code_block_lines(c) ==
    code_block_span(c, get_line_before(c.start), get_line_after(c.end))

\* walk_code_block(index, _attr, string)
walk_code_block(idx, string, w) ==
    code_block_lines(find_tokens(split(string), 0, [start |-> idx, end |-> idx, w |-> w]))

\* Lines 338-343 of walk_horizontal_rule: the line trimmed at both ends.
rule_span(b, c, w) ==
    IF b.err \/ c.err THEN Raise(w)
    ELSE Out(b.at, c.at + 1, [content_start |-> b.at, content_end |-> c.at + 1], w)

rule_line(line, w) ==
    rule_span(scan("space", line[1], 1), scan("space", line[2] - 1, 0 - 1), w)

rule_from(a, w) == IF a.err THEN Raise(w) ELSE rule_line(get_line(a.at), w)

\* walk_horizontal_rule(index)
walk_horizontal_rule(idx, w) == rule_from(scan("space", idx, 1), w)

\* Lines 391-393 of walk_str.
str_span(f, w) == Out(f[1], f[2], NoExtras, Located(w, f))

\* walk_str(index, string)
walk_str(idx, string, w) ==
    IF startswith(text, string, idx)
    THEN Out(idx, idx + Len(string), NoExtras, w)
    ELSE str_span(find_unescaped(string, idx, <<>>), w)

\* The for loop of walk_cite over the citations from number i on; c holds
\* the locals, f is what __find returned for citation number i.
RECURSIVE cite_loop(_, _, _)
cite_next(citations, i, c, f) ==
    cite_loop(citations, i + 1,
        [start |-> IF i = 0 THEN f[1] ELSE c.start,
         end |-> f[2],
         citation_start |-> f[1],
         capture_brackets |-> c.capture_brackets /\ citations[i + 1].a # "AuthorInText",
         extras_citations |-> Append(c.extras_citations, [start |-> f[1], end |-> f[2]])])
cite_loop(citations, i, c) ==
    IF i >= Len(citations) THEN c
    ELSE cite_next(citations, i, c,
                   find(<<"@">> \o citations[i + 1].s, c.citation_start, <<>>))

\* Lines 420-424: the two bracket scans.
cite_brackets(c, open, close, w) ==
    IF open.err \/ close.err THEN Raise(w)
    ELSE Out(open.at, close.at + 1, [citations |-> c.extras_citations], w)

\* Lines 418-424.
cite_span(c, w) ==
    IF c.start # c.end /\ c.capture_brackets
    THEN cite_brackets(c, scan_open_bracket(c.start), scan("not]", c.end - 1, 1), w)
    ELSE Out(c.start, c.end, [citations |-> c.extras_citations], w)

\* walk_cite(index, citations, _bibliography_entries)
walk_cite(idx, citations, w) ==
    cite_span(cite_loop(citations, 0,
                  [start |-> idx, end |-> idx, citation_start |-> idx,
                   capture_brackets |-> TRUE, extras_citations |-> <<>>]), w)

\* Line 434 of walk_code.
code_span(c) ==
    Out(c.start - 1, c.end + 1, [content_start |-> c.start, content_end |-> c.end], c.w)

\* walk_code(index, string)
walk_code(idx, string, w) ==
    code_span(find_tokens(split(string), 0, [start |-> idx, end |-> idx, w |-> w]))

\* Lines 440-443 of walk_spaces.
spaces_span(a, b, w) == IF b.err THEN Raise(w) ELSE Out(a.at, b.at, NoExtras, w)

spaces_from(a, w) == IF a.err THEN Raise(w) ELSE spaces_span(a, scan("space", a.at, 1), w)

\* walk_spaces(index)
walk_spaces(idx, w) == spaces_from(scan("nonspace", idx, 1), w)

\* Lines 447-448 of walk_math.
math_span(f, padding, w) ==
    Out(f[1] - padding, f[2] + padding, [content_start |-> f[1], content_end |-> f[2]],
        Located(w, f))

\* walk_math(index, math_type, string)
walk_math(idx, math_type, string, w) ==
    math_span(find(string, idx, <<>>), math_delims(math_type), w)

\* walk_nothing(index)
walk_nothing(idx, w) == Out(idx, idx, NoExtras, w)

\* self.fn(...): a call of walk_one (arg an entry), walk_multiple (arg the
\* entries, p the padding) or walk_multiple_nested (arg the nested entries, p
\* the nesting) from inside a walk function.
RECURSIVE self(_, _, _, _, _)

\* The locals of walk_multiple before its loop.  seen is an observation:
\* one record for each entry handled so far.
wm_first(idx) == [start |-> idx, end |-> idx, results |-> <<>>, seen |-> <<>>]

\* What the loop of walk_multiple saw of an entry of type t: the index it
\* was walked from (loc.end), the index the next entry is walked from, what
\* walk_one returned for it (o) and whether that was taken as ordered, and
\* the locator misses and the warnings of its walk (w is the walker before).
wm_seen(t, loc, end, o, ord, w) ==
    [type |-> t, cursor |-> loc.end, after |-> end, result |-> o.result,
     ordered |-> ord, misses |-> o.w.misses - w.misses,
     warned |-> Len(o.w.warnings) - Len(w.warnings)]

\* Lines 258-261: the locals after the result of entry number i was appended
\* to results; ord tells whether it is ordered.
wm_inherit(i, t, loc, o, ord, w) ==
    [start |-> IF ord /\ i = 0 THEN o.result[1].start ELSE loc.start,
     end |-> IF ord THEN o.result[1].end ELSE loc.end,
     results |-> Append(loc.results, o.result[1]),
     seen |-> Append(loc.seen,
                     wm_seen(t, loc, IF ord THEN o.result[1].end ELSE loc.end, o, ord, w))]

\* Lines 254-261: what the loop does with o, what walk_one returned for
\* entry number i, of type t.
wm_take(i, t, loc, o, w) ==
    IF o.w.err THEN [loc |-> loc, w |-> o.w]
    ELSE IF o.result = <<>>
    THEN [loc |-> [loc EXCEPT !.seen = Append(@, wm_seen(t, loc, loc.end, o, FALSE, w))],
          w |-> o.w]
    ELSE [loc |-> wm_inherit(i, t, loc, o,
                      is_last_result_ordered(Append(loc.results, o.result[1])), w),
          w |-> o.w]

\* One iteration of the for loop of walk_multiple: entry is number i of the
\* entries, loc the locals.  Returns [loc, w].
wm_step(i, entry, loc, w) ==
    wm_take(i, entry.t, loc, self("walk_one", loc.end, entry, 0, w), w)

RECURSIVE wm_loop(_, _, _, _)
wm_next(entries, i, nxt) == wm_loop(entries, i + 1, nxt.loc, nxt.w)
wm_loop(entries, i, loc, w) ==
    IF w.err \/ i >= Len(entries) THEN [loc |-> loc, w |-> w]
    ELSE wm_next(entries, i, wm_step(i, entries[i + 1], loc, w))

\* Lines 262-263: what walk_multiple returns from its locals after the loop;
\* the call is recorded in w.calls.
wm_return(idx, entries, padding, loc, w) ==
    Out(loc.start - padding, loc.end + padding,
        IF padding # 0 THEN [content_start |-> loc.start, content_end |-> loc.end]
        ELSE NoExtras,
        [w EXCEPT !.calls = Append(@, [index |-> idx, padding |-> padding,
                                       entries |-> Len(entries),
                                       start |-> loc.start - padding,
                                       end |-> loc.end + padding,
                                       results |-> loc.results,
                                       seen |-> loc.seen])])

wm_finish(idx, entries, padding, l) ==
    IF l.w.err THEN Raise(l.w) ELSE wm_return(idx, entries, padding, l.loc, l.w)

\* walk_multiple(index, entries, padding=0)
walk_multiple(idx, entries, padding, w) ==
    wm_finish(idx, entries, padding, wm_loop(entries, 0, wm_first(idx), w))

\* The for loop of walk_multiple_nested from entry number i on; c holds the
\* locals [start, end] and w, r is what the walk of entry number i returned.
RECURSIVE wmn_loop(_, _, _, _)
wmn_next(entries_nested, nesting, i, c, r) ==
    wmn_loop(entries_nested, nesting, i + 1,
             [start |-> IF i = 0 THEN r.start ELSE c.start, end |-> r.end, w |-> r.w])
wmn_loop(entries_nested, nesting, i, c) ==
    IF c.w.err \/ i >= Len(entries_nested) THEN c
    ELSE wmn_next(entries_nested, nesting, i, c,
             IF nesting > 0
             THEN self("walk_multiple_nested", c.end, entries_nested[i + 1].k, nesting, c.w)
             ELSE self("walk_multiple", c.end, entries_nested[i + 1].k, 0, c.w))

\* An IndexError in a loop propagates; otherwise the loop's start and end.
loop_return(c) == IF c.w.err THEN Raise(c.w) ELSE Out(c.start, c.end, NoExtras, c.w)

\* walk_multiple_nested(index, entries_nested, nesting=1)
walk_multiple_nested(idx, entries_nested, nesting, w) ==
    loop_return(wmn_loop(entries_nested, nesting - 1, 0,
                         [start |-> idx, end |-> idx, w |-> w]))

\* The for loop of walk_multiple_to_multiple_nested from pair number i on;
\* a pair is a node whose k holds the entry list and the nested entry lists.
RECURSIVE wmmn_loop(_, _, _)
wmmn_next(pairs, i, c, r, q) ==
    wmmn_loop(pairs, i + 1,
              [start |-> IF i = 0 THEN r.start ELSE c.start, end |-> q.end, w |-> q.w])
wmmn_nested(pairs, i, c, r) ==
    IF r.w.err THEN [c EXCEPT !.w = r.w]
    ELSE wmmn_next(pairs, i, c, r,
                   self("walk_multiple_nested", r.end, pairs[i + 1].k[2].k, 1, r.w))
wmmn_loop(pairs, i, c) ==
    IF c.w.err \/ i >= Len(pairs) THEN c
    ELSE wmmn_nested(pairs, i, c,
                     self("walk_multiple", c.end, pairs[i + 1].k[1].k, 0, c.w))

\* walk_multiple_to_multiple_nested(index, entries_to_entries_nested)
walk_multiple_to_multiple_nested(idx, pairs, w) ==
    loop_return(wmmn_loop(pairs, 0, [start |-> idx, end |-> idx, w |-> w]))

\* Line 324 of walk_list.
list_span(r) ==
    IF r.w.err THEN r
    ELSE Out(r.start, r.end, [content_start |-> r.start, content_end |-> r.end], r.w)

\* walk_list(index, nested_entries)
walk_list(idx, nested_entries, w) ==
    list_span(self("walk_multiple_nested", idx, nested_entries, 1, w))

\* Lines 329-332 of walk_header: after is the line after the content.
header_span(level, r, after) ==
    IF header_setext_delim(Slice(text, after[1], after[2]))
    THEN Out(r.start, after[2],
             [level |-> level, content_start |-> r.start, content_end |-> after[2]], r.w)
    ELSE Out(r.start, r.end,
             [level |-> level, content_start |-> r.start, content_end |-> r.end], r.w)

header_line(level, r) ==
    IF r.w.err THEN r ELSE header_span(level, r, get_line_after(r.end))

\* walk_header(index, level, _attr, entries)
walk_header(idx, level, entries, w) ==
    header_line(level, self("walk_multiple", idx, entries, 0, w))

\* Lines 372-377 of walk_table.
table_extras(h, r, c) ==
    (IF c.start # c.end THEN [caption_start |-> c.start, caption_end |-> c.end]
     ELSE NoExtras)
    @@ (IF h.start # h.end THEN [header_start |-> h.start, header_end |-> h.end]
        ELSE NoExtras)
    @@ [rows_start |-> r.start, rows_end |-> r.end]

\* Lines 365-370: the delimiter lines before and after the table.
table_delims(h, r, c, start, end, before, after) ==
    Out(IF table_delim(Slice(text, before[1], before[2])) THEN before[1] ELSE start,
        IF table_delim(Slice(text, after[1], after[2])) THEN after[2] ELSE end,
        table_extras(h, r, c), c.w)

table_lines(h, r, c, start, end) ==
    table_delims(h, r, c, start, end, get_line_before(start), get_line_after(end))

\* Lines 352-363: what comes first and last.
table_span(h, r, c) ==
    IF c.w.err THEN c
    ELSE table_lines(h, r, c,
             IF h.start # h.end /\ c.start # c.end THEN Min(h.start, c.start)
             ELSE IF h.start # h.end THEN h.start
             ELSE IF c.start # c.end THEN Min(c.start, r.start)
             ELSE r.start,
             IF c.start # c.end THEN Max(c.end, r.end) ELSE r.end)

table_caption(idx, caption, h, r) ==
    IF r.w.err THEN r
    ELSE table_span(h, r, self("walk_multiple", idx, caption, 0, r.w))

table_rows(idx, caption, rows, h) ==
    IF h.w.err THEN h
    ELSE table_caption(idx, caption, h,
                       self("walk_multiple_nested", h.end, rows, 2, h.w))

\* walk_table(index, caption, _alignment, _column_widths, header, rows)
walk_table(idx, caption, header, rows, w) ==
    table_rows(idx, caption, rows, self("walk_multiple_nested", idx, header, 1, w))

\* Lines 381-383 of walk_div.
div_span(identifier, r) ==
    IF r.w.err THEN r
    ELSE Out(r.start, r.end,
             IF identifier # "" THEN [identifier |-> identifier] ELSE NoExtras, r.w)

\* walk_div(index, attr, entries)
walk_div(idx, identifier, entries, w) ==
    div_span(identifier, self("walk_multiple", idx, entries, 0, w))

\* Lines 398-403 of walk_small_caps: d is the number of the first pair of
\* delimiters whose end delimiter follows the content, 0 when none does.
small_caps_span(r, d) ==
    IF d = 0
    THEN Out(r.start, r.end, [content_start |-> r.start, content_end |-> r.end], r.w)
    ELSE Out(str_rfind(text, smallcaps_delims[d][1], r.end),
             r.end + Len(smallcaps_delims[d][2]),
             [content_start |-> r.start, content_end |-> r.end], r.w)

small_caps_delim(r) ==
    IF r.w.err THEN r
    ELSE small_caps_span(r, LeastOr({d \in 1..Len(smallcaps_delims) :
                                        startswith(text, smallcaps_delims[d][2], r.end)}, 0))

\* walk_small_caps(index, entries)
walk_small_caps(idx, entries, w) ==
    small_caps_delim(self("walk_multiple", idx, entries, 0, w))

\* Lines 464-474 of walk_link: u and t are the bounds of the url and of the
\* title, end the larger of their ends.
link_span(idx, r, u, t, end) ==
    Out(idx,
        IF get_line(r.end)[1] # get_line(end)[1] THEN r.end
        ELSE IF u[1] # u[2] THEN end + 1
        ELSE end,
        [content_start |-> r.start, content_end |-> r.end], r.w)

\* Line 461.
link_end(idx, r, u, t) == link_span(idx, r, u, t, Max(u[2], t[2]))

\* Lines 455-460.
link_target(idx, url, title, r) ==
    IF r.w.err THEN r
    ELSE link_end(idx, r,
                  IF url # <<>> THEN find(url, r.end, <<>>) ELSE <<r.end, r.end>>,
                  IF title # <<>> THEN find(title, r.end, <<>>) ELSE <<r.end, r.end>>)

\* walk_link(index, _attr, entries, target)
walk_link(idx, entries, url, title, w) ==
    link_target(idx, url, title, self("walk_multiple", idx, entries, 0, w))

\* Lines 480-482 of walk_note: an inline note.
note_inline(r) ==
    IF r.w.err THEN r
    ELSE Out(r.start, r.end + 1,
             [type |-> "inline", content_start |-> r.start, content_end |-> r.end], r.w)

\* Lines 491-493: a footnote whose definition was found.
note_footnote(r) ==
    IF r.w.err THEN r
    ELSE Out(r.start, r.end,
             [type |-> "footnote", content_start |-> r.start, content_end |-> r.end],
             r.w)

\* Lines 490-493: at is match.start(), -1 when there is no match.
note_definition(idx, entries, at, w) ==
    IF at < 0 THEN Out(idx, idx, [type |-> "footnote"], w)
    ELSE note_footnote(self("walk_multiple", at, entries, 0, w))

\* Lines 486-489: ident is the text of the footnote identifier, <<>> when
\* the text at the index is none.
note_identifier(idx, entries, ident, w) ==
    note_definition(idx, entries,
                    IF ident = <<>> THEN 0 - 1 ELSE footnote_definition(ident), w)

\* walk_note(index, entries)
walk_note(idx, entries, w) ==
    IF startswith(SliceFrom(text, idx), <<"^", "[">>, 0)
    THEN note_inline(self("walk_multiple", idx, entries, 0, w))
    ELSE note_identifier(idx, entries, footnote_identifier(SliceFrom(text, idx)), w)

\* fn(index, *args_fn(entry.get("c"))) for the tag's row of the dispatch table.
dispatch(idx, entry, w) ==
    CASE entry.t \in {"Plain", "Para", "BlockQuote", "Span"} ->
             self("walk_multiple", idx, entry.k, 0, w)
      [] entry.t \in {"Emph", "Superscript", "Subscript", "Quoted"} ->
             self("walk_multiple", idx, entry.k, 1, w)
      [] entry.t \in {"Strong", "Strikeout"} -> self("walk_multiple", idx, entry.k, 2, w)
      [] entry.t = "LineBlock" -> self("walk_multiple_nested", idx, entry.k, 1, w)
      [] entry.t = "CodeBlock" -> walk_code_block(idx, entry.s, w)
      [] entry.t \in {"RawBlock", "RawInline", "Str"} -> walk_str(idx, entry.s, w)
      [] entry.t \in {"OrderedList", "BulletList"} -> walk_list(idx, entry.k, w)
      [] entry.t = "DefinitionList" -> walk_multiple_to_multiple_nested(idx, entry.k, w)
      [] entry.t = "Header" -> walk_header(idx, entry.n, entry.k, w)
      [] entry.t = "HorizontalRule" -> walk_horizontal_rule(idx, w)
      [] entry.t = "Table" ->
             walk_table(idx, entry.k[1].k, entry.k[2].k, entry.k[3].k, w)
      [] entry.t = "Div" -> walk_div(idx, entry.a, entry.k, w)
      [] entry.t = "Null" -> walk_nothing(idx, w)
      [] entry.t = "SmallCaps" -> walk_small_caps(idx, entry.k, w)
      [] entry.t = "Cite" -> walk_cite(idx, entry.k, w)
      [] entry.t = "Code" -> walk_code(idx, entry.s, w)
      [] entry.t \in {"Space", "SoftBreak", "LineBreak"} -> walk_spaces(idx, w)
      [] entry.t = "Math" -> walk_math(idx, entry.a, entry.s, w)
      [] entry.t \in {"Link", "Image"} -> walk_link(idx, entry.k, entry.u, entry.v, w)
      [] entry.t = "Note" -> walk_note(idx, entry.k, w)

\* Line 274: the validity check.
invalid(s, e) == s < 0 \/ e < 0 \/ s >= e

\* Lines 280-283: the two trimming loops; a and b are where they stop.
trimmed(a, b) == [err |-> a.err \/ b.err, start |-> a.at, end |-> b.at + 1]

\* The trimming with the second loop (lines 282-283) left out.
trim_start_only(t, s, e) ==
    IF t \in non_spaced_types
    THEN trimmed(scan("space", s, 1), [err |-> FALSE, at |-> e - 1])
    ELSE [err |-> FALSE, start |-> s, end |-> e]

\* Lines 278-283: the whitespace trimming of a non-spaced result.
trim(t, s, e) ==
    IF t \in non_spaced_types
    THEN trimmed(scan("space", s, 1), scan("space", e - 1, 0 - 1))
    ELSE [err |-> FALSE, start |-> s, end |-> e]

\* Lines 285-289: the widening of a paragraph result to whole lines.
widen(t, s, e, x) ==
    IF t \in paragraph_types
    THEN Result(t, get_line(s)[1], get_line(e)[2], [s |-> s, e |-> e] @@ x)
    ELSE Result(t, s, e, x)

\* Lines 291-292: the result is appended to self.results and returned.
save(result, w) == [result |-> <<result>>, w |-> [w EXCEPT !.results = Append(@, result)]]

\* Lines 278-292: tr is the trimmed span of the valid span r of a t.
store(t, r, tr) ==
    IF tr.err THEN [result |-> <<>>, w |-> [r.w EXCEPT !.err = TRUE]]
    ELSE save(widen(t, tr.start, tr.end, r.extras), r.w)

\* Lines 274-292: r is what the tag's walk function returned.
check(t, r) ==
    IF r.w.err THEN [result |-> <<>>, w |-> r.w]
    ELSE IF invalid(r.start, r.end)
    THEN [result |-> <<>>, w |-> Warn(r.w, "invalid", t)]
    ELSE store(t, r, trim(t, r.start, r.end))

\* walk_one(index, entry); returns [result, w], result <<>> for None.
walk_one(idx, entry, w) ==
    IF entry.t \notin types
    THEN [result |-> <<>>, w |-> Warn(w, "unknown", entry.t)]
    ELSE check(entry.t, dispatch(idx, entry, w))

self(fn, idx, arg, p, w) ==
    CASE fn = "walk_one" -> walk_one(idx, arg, w)
      [] fn = "walk_multiple" -> walk_multiple(idx, arg, p, w)
      [] fn = "walk_multiple_nested" -> walk_multiple_nested(idx, arg, p, w)

-----------------------------------------------------------------------------
(* The locator called on its own: every text, target and range within the  *)
(* bounds.                                                                 *)

FindAlphabet == {"a", "\\", "*"}
FindTargets == {"a", "*"}
ScanAlphabet == {"\\", "*", "\r"}
ScanTargets == {"*", "_"}

\* The walker's variables while the locator is exercised on its own.
WalkerIdle ==
    /\ blocks = <<>>
    /\ pc = "idle"
    /\ wi = 0
    /\ wloc = wm_first(0)
    /\ ret = <<0, 0>>
    /\ results = <<>>
    /\ warnings = <<>>
    /\ calls = <<>>
    /\ scn = [kind |-> "none"]

\* The line utilities' variables while something else is exercised.
LinesIdle ==
    /\ lindex = 0
    /\ lpc = "idle"
    /\ lline = <<0, 0>>
    /\ lbefore = <<0, 0>>
    /\ lafter = <<0, 0>>

LocatorCall(m, alphabet, targets) ==
    /\ mode = m
    /\ text \in SeqsUpTo(alphabet, MaxTextLen)
    /\ sub \in SeqsUpTo(targets, MaxSubLen)
    /\ fstart \in (0 - 1)..(Len(text) + 1)
    /\ fend \in {<<>>} \cup {<<j>> : j \in (0 - 1)..(Len(text) + 1)}
    /\ fpc = "call"
    /\ index = 0
    /\ start_match = 0 - 1
    /\ fi = 0
    /\ fret = NotFound
    /\ fplain = NotFound
    /\ WalkerIdle
    /\ LinesIdle

InitFind == LocatorCall("find", FindAlphabet, FindTargets)

\* A call of __find.
CallFind ==
    /\ mode = "find" /\ fpc = "call"
    /\ fplain' = find(sub, fstart, fend)
    /\ fpc' = "plain"
    /\ UNCHANGED <<text, mode, sub, fstart, fend, index, start_match, fi, fret, wvars, lvars>>

\* A call of __find_unescaped with the same arguments.
CallFindUnescaped ==
    /\ mode = "find" /\ fpc = "plain"
    /\ fret' = find_unescaped(sub, fstart, fend)
    /\ fpc' = "done"
    /\ UNCHANGED <<text, mode, sub, fstart, fend, index, start_match, fi, fplain, wvars, lvars>>

NextFind == CallFind \/ CallFindUnescaped

SpecFind == InitFind /\ [][NextFind]_vars

-----------------------------------------------------------------------------
(* __find_unescaped step by step: one action per loop iteration.           *)

InitScan == LocatorCall("scan", ScanAlphabet, ScanTargets)

\* Lines 513-520: the range guard and the empty target return at once.
ScanReject ==
    /\ mode = "scan" /\ fpc = "call"
    /\ fu_invalid_range(fstart, fend)
    /\ fret' = NotFound
    /\ fpc' = "done"
    /\ UNCHANGED <<text, mode, sub, fstart, fend, index, start_match, fi, fplain, wvars, lvars>>

ScanEmpty ==
    /\ mode = "scan" /\ fpc = "call"
    /\ ~fu_invalid_range(fstart, fend)
    /\ sub = <<>>
    /\ fret' = <<fstart, fstart>>
    /\ fpc' = "done"
    /\ UNCHANGED <<text, mode, sub, fstart, fend, index, start_match, fi, fplain, wvars, lvars>>

\* Lines 522-524: the locals before the loop.
ScanEnter ==
    /\ mode = "scan" /\ fpc = "call"
    /\ ~fu_invalid_range(fstart, fend)
    /\ sub # <<>>
    /\ index' = fu_first(fstart).index
    /\ start_match' = fu_first(fstart).start_match
    /\ fi' = fu_first(fstart).i
    /\ fpc' = "loop"
    /\ UNCHANGED <<text, mode, sub, fstart, fend, fret, fplain, wvars, lvars>>

\* Lines 525-549: one iteration of the while loop.
ScanIterate ==
    /\ mode = "scan" /\ fpc = "loop"
    /\ fi < fu_end(fend)
    /\ \E q \in {fu_step(sub, [index |-> index, start_match |-> start_match, i |-> fi])} :
           /\ index' = q.index
           /\ start_match' = q.start_match
           /\ fi' = q.i
           /\ fret' = q.ret
           /\ fpc' = IF q.done THEN "done" ELSE "loop"
    /\ UNCHANGED <<text, mode, sub, fstart, fend, fplain, wvars, lvars>>

\* Line 551: the loop ran out of text.
ScanExhausted ==
    /\ mode = "scan" /\ fpc = "loop"
    /\ fi >= fu_end(fend)
    /\ fret' = NotFound
    /\ fpc' = "done"
    /\ UNCHANGED <<text, mode, sub, fstart, fend, index, start_match, fi, fplain, wvars, lvars>>

NextScan == ScanReject \/ ScanEmpty \/ ScanEnter \/ ScanIterate \/ ScanExhausted

SpecScan == InitScan /\ [][NextScan]_vars

\* The call runs to its end: the interpreter keeps executing the loop.
SpecScanFair == SpecScan /\ WF_vars(NextScan)

-----------------------------------------------------------------------------
(* The line utilities called on their own: every text over LineAlphabet    *)
(* of at most MaxLineText characters, every index from -1 to len + 1.      *)

LineAlphabet == {"a", "\n"}

InitLines ==
    /\ mode = "lines"
    /\ text \in SeqsUpTo(LineAlphabet, MaxLineText)
    /\ lindex \in (0 - 1)..(Len(text) + 1)
    /\ lpc = "call"
    /\ lline = <<0, 0>>
    /\ lbefore = <<0, 0>>
    /\ lafter = <<0, 0>>
    /\ sub = <<>> /\ fstart = 0 /\ fend = <<>> /\ fpc = "idle"
    /\ index = 0 /\ start_match = 0 - 1 /\ fi = 0
    /\ fret = NotFound /\ fplain = NotFound
    /\ WalkerIdle

\* A call of __get_line(index).
CallGetLine ==
    /\ mode = "lines" /\ lpc = "call"
    /\ lline' = get_line(lindex)
    /\ lpc' = "line"
    /\ UNCHANGED <<text, mode, fvars, wvars, lindex, lbefore, lafter>>

\* A call of __get_line_before(index).
CallGetLineBefore ==
    /\ mode = "lines" /\ lpc = "line"
    /\ lbefore' = get_line_before(lindex)
    /\ lpc' = "before"
    /\ UNCHANGED <<text, mode, fvars, wvars, lindex, lline, lafter>>

\* A call of __get_line_after(index).
CallGetLineAfter ==
    /\ mode = "lines" /\ lpc = "before"
    /\ lafter' = get_line_after(lindex)
    /\ lpc' = "done"
    /\ UNCHANGED <<text, mode, fvars, wvars, lindex, lline, lbefore>>

NextLines == CallGetLine \/ CallGetLineBefore \/ CallGetLineAfter

SpecLines == InitLines /\ [][NextLines]_vars

-----------------------------------------------------------------------------
(* walk(): the parse tree comes from the conversion engine; the walk is    *)
(* walk_multiple(0, blocks), one action per entry of the outermost loop.   *)

MaxKids == 2

\* The entries of the parse tree, by what their "c" holds: a string, nothing,
\* a list of entries.
Text(t, s) == Node(t, s, <<>>, <<>>, <<>>, "", 0)
Str(s) == Text("Str", s)
Leaf(t) == Node(t, <<>>, <<>>, <<>>, <<>>, "", 0)
Kids(t, k) == Node(t, <<>>, k, <<>>, <<>>, "", 0)
Math(a, s) == Node("Math", s, <<>>, <<>>, <<>>, a, 0)
Header(n, k) == Node("Header", <<>>, k, <<>>, <<>>, "", n)
Link(t, k, url, title) == Node(t, <<>>, k, url, title, "", 0)
Citation(id, m) == Node("Citation", id, <<>>, <<>>, <<>>, m, 0)
Div(id, k) == Node("Div", <<>>, k, <<>>, <<>>, id, 0)

\* The state of the walker's effects, as the walk functions thread it.
\* misses counts from the start of the step.
Effects ==
    [results |-> results, warnings |-> warnings, calls |-> calls, err |-> FALSE,
     misses |-> 0]

WalkStart ==
    /\ mode = "walk"
    /\ pc = "walk"
    /\ wi = 0
    /\ wloc = wm_first(0)
    /\ ret = <<0, 0>>
    /\ results = <<>>
    /\ warnings = <<>>
    /\ calls = <<>>
    /\ sub = <<>> /\ fstart = 0 /\ fend = <<>> /\ fpc = "idle"
    /\ index = 0 /\ start_match = 0 - 1 /\ fi = 0
    /\ fret = NotFound /\ fplain = NotFound
    /\ LinesIdle

\* The for loop of the outermost walk_multiple handles its next entry.
WalkEntry ==
    /\ mode = "walk" /\ pc = "walk"
    /\ wi < Len(blocks)
    /\ \E nxt \in {wm_step(wi, blocks[wi + 1], wloc, Effects)} :
           /\ ~nxt.w.err
           /\ wloc' = nxt.loc
           /\ results' = nxt.w.results
           /\ warnings' = nxt.w.warnings
           /\ calls' = nxt.w.calls
    /\ wi' = wi + 1
    /\ UNCHANGED <<text, mode, fvars, blocks, pc, ret, scn, lvars>>

\* The entry's walk raises IndexError: walk() ends with the exception.
WalkRaise ==
    /\ mode = "walk" /\ pc = "walk"
    /\ wi < Len(blocks)
    /\ \E nxt \in {wm_step(wi, blocks[wi + 1], wloc, Effects)} :
           /\ nxt.w.err
           /\ results' = nxt.w.results
           /\ warnings' = nxt.w.warnings
           /\ calls' = nxt.w.calls
    /\ pc' = "crashed"
    /\ UNCHANGED <<text, mode, fvars, blocks, wi, wloc, ret, scn, lvars>>

\* The outermost walk_multiple returns and walk() returns self.results.
WalkReturn ==
    /\ mode = "walk" /\ pc = "walk"
    /\ wi = Len(blocks)
    /\ \E r \in {wm_return(0, blocks, 0, wloc, Effects)} :
           /\ ret' = <<r.start, r.end>>
           /\ calls' = r.w.calls
    /\ pc' = "done"
    /\ UNCHANGED <<text, mode, fvars, blocks, wi, wloc, results, warnings, scn, lvars>>

Next == WalkEntry \/ WalkRaise \/ WalkReturn

-----------------------------------------------------------------------------
(* The documents walked.  scn tells which kind of document it is and, for  *)
(* the constructed ones, where its parts are in the text.                  *)

\* Any short text with any small tree.
WalkAlphabet == {"a", " ", "\n", "NBSP"}

InlineChoices ==
    {Str(<<"a">>), Str(<<"NBSP">>), Leaf("Space"), Leaf("SoftBreak"), Text("Code", <<"a">>),
     Math("InlineMath", <<"a">>), Kids("Emph", <<Str(<<"a">>)>>),
     Kids("Note", <<Kids("Para", <<Str(<<"a">>)>>)>>), Leaf("Foo")}

BlockChoices ==
    {Text("CodeBlock", <<"a">>), Text("CodeBlock", <<"a", " ", "b", " ", "a">>), Leaf("HorizontalRule"),
     Header(1, <<Str(<<"a">>)>>)}

InitAny ==
    /\ text \in SeqsUpTo(WalkAlphabet, MaxTextLen)
    /\ \E kids \in SeqsUpTo(InlineChoices, MaxKids) :
           blocks \in {<<Kids("Para", kids)>>} \cup {<<Kids("Para", kids), b>> : b \in BlockChoices}
    /\ scn = [kind |-> "any"]
    /\ WalkStart

\* A paragraph made of an inline link or image, "[content](url)" or
\* "[content](url "title")", and what the conversion engine parses it into.
LinkDoc(t, lead, content, url, title, tail) ==
    [text |-> lead \o <<"[">> \o content \o <<"]", "(">> \o url
              \o (IF title = <<>> THEN <<>> ELSE <<" ", "\"">> \o title \o <<"\"">>)
              \o <<")">> \o tail,
     blocks |-> <<Kids("Para", <<Link(t, <<Str(content)>>, url, title)>>
                       \o (IF tail = <<>> THEN <<>>
                           ELSE <<Leaf("Space"), Str(SubSeq(tail, 2, Len(tail)))>>))>>,
     scn |-> [kind |-> "link",
              titled |-> title # <<>>,
              content_start |-> Len(lead) + 1,
              content_end |-> Len(lead) + 1 + Len(content),
              url_start |-> Len(lead) + 3 + Len(content),
              url_end |-> Len(lead) + 3 + Len(content) + Len(url),
              title_start |-> Len(lead) + 5 + Len(content) + Len(url),
              title_end |-> Len(lead) + 5 + Len(content) + Len(url) + Len(title),
              end |-> Len(lead) + 4 + Len(content) + Len(url)
                      + (IF title = <<>> THEN 0 ELSE 3 + Len(title))]]

LinkDocs ==
    {LinkDoc("Link", <<>>, content, url, title, tail) :
         content \in {<<"a">>, <<"a", "b">>}, url \in {<<"u">>, <<"u", "v">>},
         title \in {<<>>, <<"t">>}, tail \in {<<>>, <<" ", "z">>}}
    \cup {LinkDoc("Image", <<"!">>, content, url, title, tail) :
              content \in {<<"a">>, <<"a", "b">>}, url \in {<<"u">>, <<"u", "v">>},
              title \in {<<>>, <<"t">>}, tail \in {<<>>, <<" ", "z">>}}

\* A fenced code block: an opening fence line with an info string, the
\* content, a closing fence line; after a paragraph "a" when led.
FenceDoc(led, fence, info, content, tail) ==
    [text |-> (IF led THEN <<"a", "\n", "\n">> ELSE <<>>) \o fence \o info \o <<"\n">>
              \o content \o <<"\n">> \o fence \o tail,
     blocks |-> (IF led THEN <<Kids("Para", <<Str(<<"a">>)>>)>> ELSE <<>>)
                \o <<Text("CodeBlock", content)>>,
     scn |-> [kind |-> "fence",
              start |-> IF led THEN 3 ELSE 0,
              content_start |-> (IF led THEN 3 ELSE 0) + 4 + Len(info),
              content_end |-> (IF led THEN 3 ELSE 0) + 4 + Len(info) + Len(content),
              end |-> (IF led THEN 3 ELSE 0) + 8 + Len(info) + Len(content)]]

FenceDocs ==
    {FenceDoc(led, fence, info, content, tail) :
         led \in BOOLEAN,
         fence \in {<<"BACKTICK", "BACKTICK", "BACKTICK">>, <<"~", "~", "~">>},
         info \in {<<>>, <<"x">>, <<"p", "y">>},
         content \in {<<"x">>, <<"x", " ", "=", " ", "1">>, <<"y", "\n", " ", "x">>},
         tail \in {<<>>, <<"\n">>}}

\* A paragraph ending in a footnote reference, "[^id]", with the footnote's
\* definition, "[^id]: content", in a paragraph of its own.
NoteDoc(lead, id, content, tail) ==
    [text |-> lead \o <<"[", "^">> \o id \o <<"]", "\n", "\n", "[", "^">> \o id
              \o <<"]", ":", " ">> \o content[1]
              \o (IF Len(content) = 1 THEN <<>> ELSE <<" ">> \o content[2]) \o tail,
     blocks |-> <<Kids("Para", (IF lead = <<>> THEN <<>>
                        ELSE <<Str(SubSeq(lead, 1, Len(lead) - 1)), Leaf("Space")>>)
                       \o <<Kids("Note", <<Kids("Para", IF Len(content) = 1 THEN <<Str(content[1])>>
                                        ELSE <<Str(content[1]), Leaf("Space"),
                                               Str(content[2])>>)>>)>>)>>,
     scn |-> [kind |-> "note",
              content_start |-> Len(lead) + 2 * Len(id) + 10,
              content_end |-> Len(lead) + 2 * Len(id) + 10 + Len(content[1])
                              + (IF Len(content) = 1 THEN 0 ELSE 1 + Len(content[2]))]]

NoteDocs ==
    {NoteDoc(lead, id, content, tail) :
         lead \in {<<>>, <<"S", " ">>, <<"S", "e", "e", " ">>},
         id \in {<<"a">>, <<"1">>, <<"n", "1">>},
         content \in {<<<<"E">>>>, <<<<"E", "x">>>>, <<<<"E">>, <<"f">>>>},
         tail \in {<<>>, <<"\n">>}}

\* Small documents of every kind of block and inline, with what the conversion
\* engine parses them into.
SampleDocs ==
    {[text |-> <<"NBSP", " ", "a">>,
      blocks |-> <<Kids("Para", <<Str(<<"NBSP">>), Leaf("Space"), Str(<<"a">>)>>)>>],
     [text |-> <<"a", " ", "NBSP", " ", "b">>,
      blocks |-> <<Kids("Para", <<Str(<<"a">>), Leaf("Space"), Str(<<"NBSP">>),
          Leaf("Space"), Str(<<"b">>)>>)>>],
     [text |-> <<"a", " ", "&", "m", "d", "a", "s", "h", ";", " ", "c">>,
      blocks |-> <<Kids("Para", <<Str(<<"a">>), Leaf("Space"), Str(<<"U+2014">>),
          Leaf("Space"), Str(<<"c">>)>>)>>],
     [text |-> <<"[", "^", "a", "]", " ", "b", "\n", "\n", "[", "^", "a", "]", ":", " ",
         "E">>,
      blocks |-> <<Kids("Para", <<Kids("Note", <<Kids("Para", <<Str(<<"E">>)>>)>>),
          Leaf("Space"), Str(<<"b">>)>>)>>],
     [text |-> <<"a", " ", " ", "\n", "\n", "NBSP", " ", "b">>,
      blocks |-> <<Kids("Para", <<Str(<<"a">>)>>), Kids("Para", <<Str(<<"NBSP">>),
          Leaf("Space"), Str(<<"b">>)>>)>>],
     [text |-> <<"#", " ", "H", "\n", "\n", "T", " ", "*", "e", "*", " ", "*", "*", "s",
         "*", "*", "\n">>,
      blocks |-> <<Header(1, <<Str(<<"H">>)>>), Kids("Para", <<Str(<<"T">>), Leaf("Space"),
          Kids("Emph", <<Str(<<"e">>)>>), Leaf("Space"), Kids("Strong",
          <<Str(<<"s">>)>>)>>)>>],
     [text |-> <<"H", "\n", "=", "=", "=", "\n", "\n", "a", "\n", "\n", "-", "-", "-",
         "\n", "\n", "b", "\n">>,
      blocks |-> <<Header(1, <<Str(<<"H">>)>>), Kids("Para", <<Str(<<"a">>)>>),
          Leaf("HorizontalRule"), Kids("Para", <<Str(<<"b">>)>>)>>],
     [text |-> <<"x", " ", "[", "@", "a", ";", " ", "@", "b", "]", " ", "y", "\n">>,
      blocks |-> <<Kids("Para", <<Str(<<"x">>), Leaf("Space"), Kids("Cite",
          <<Citation(<<"a">>, "NormalCitation"), Citation(<<"b">>, "NormalCitation")>>),
          Leaf("Space"), Str(<<"y">>)>>)>>],
     [text |-> <<"BACKTICK", "c", " ", "d", "BACKTICK", " ", "$", "$", "y", "$", "$", " ",
         "<", "s", "c", ">", "q", "<", "/", "s", "c", ">">>,
      blocks |-> <<Kids("Para", <<Text("Code", <<"c", " ", "d">>), Leaf("Space"),
          Math("DisplayMath", <<"y">>), Leaf("Space"), Kids("SmallCaps",
          <<Str(<<"q">>)>>)>>)>>],
     [text |-> <<"-", " ", "a", "\n", "-", " ", "b", "\n", "\n", "1", ".", " ", "c", "\n">>,
      blocks |-> <<Kids("BulletList", <<Kids("List", <<Kids("Plain", <<Str(<<"a">>)>>)>>),
          Kids("List", <<Kids("Plain", <<Str(<<"b">>)>>)>>)>>), Kids("OrderedList",
          <<Kids("List", <<Kids("Plain", <<Str(<<"c">>)>>)>>)>>)>>],
     [text |-> <<"-", "-", "-", "\n", "a", " ", "b", "\n", "-", "-", "-", "\n", "c", " ",
         "d", "\n", "-", "-", "-", "\n", "\n", ":", " ", "e", "\n">>,
      blocks |-> <<Kids("Table", <<Kids("List", <<Str(<<"e">>)>>), Kids("List",
          <<Kids("List", <<Kids("Plain", <<Str(<<"a">>)>>)>>), Kids("List", <<Kids("Plain",
          <<Str(<<"b">>)>>)>>)>>), Kids("List", <<Kids("List", <<Kids("List",
          <<Kids("Plain", <<Str(<<"c">>)>>)>>), Kids("List", <<Kids("Plain",
          <<Str(<<"d">>)>>)>>)>>)>>)>>)>>],
     [text |-> <<"t", "\n", ":", " ", " ", " ", "d", "\n", "\n", "|", " ", "a", "\n", "|",
         " ", "b", "\n">>,
      blocks |-> <<Kids("DefinitionList", <<Kids("List", <<Kids("List", <<Str(<<"t">>)>>),
          Kids("List", <<Kids("List", <<Kids("Plain", <<Str(<<"d">>)>>)>>)>>)>>)>>),
          Kids("LineBlock", <<Kids("List", <<Str(<<"a">>)>>), Kids("List",
          <<Str(<<"b">>)>>)>>)>>],
     [text |-> <<":", ":", ":", " ", "{", "#", "r", "e", "f", "s", "}", "\n", "a", "\n",
         ":", ":", ":", "\n", "\n", ">", " ", "b", "^", "[", "n", "]", "\n">>,
      blocks |-> <<Div("refs", <<Kids("Para", <<Str(<<"a">>)>>)>>), Kids("BlockQuote",
          <<Kids("Para", <<Str(<<"b">>), Kids("Note", <<Kids("Para",
          <<Str(<<"n">>)>>)>>)>>)>>)>>],
     [text |-> <<"a", "\\", "*", "b", " ", "&", "l", "t", ";", " ", "c">>,
      blocks |-> <<Kids("Para", <<Str(<<"a", "*", "b">>), Leaf("Space"), Str(<<"<">>),
          Leaf("Space"), Str(<<"c">>)>>)>>]}

InitDoc ==
    /\ \E d \in LinkDocs \cup FenceDocs \cup NoteDocs
                 \cup {[text |-> d.text, blocks |-> d.blocks, scn |-> [kind |-> "sample"]] :
                           d \in SampleDocs}
                 \cup {[text |-> <<"a", " ", "b">>,
                        blocks |-> <<Text("CodeBlock", <<"a", " ", "z", "z", " ", "b">>)>>,
                        scn |-> [kind |-> "tree"]]} :
           /\ text = d.text
           /\ blocks = d.blocks
           /\ scn = d.scn
    /\ WalkStart

Init == InitAny \/ InitDoc

Spec == Init /\ [][Next]_vars

\* The walk of one paragraph of inlines whose spans can begin or end on
\* whitespace: any short text, any such small paragraph.
InitTrim ==
    /\ text \in SeqsUpTo(WalkAlphabet, MaxTextLen)
    /\ \E kids \in SeqsUpTo({Str(<<"a">>), Str(<<"NBSP">>), Leaf("Space"),
                              Kids("Emph", <<Str(<<"a">>)>>),
                              Math("InlineMath", <<"a">>)}, MaxKids) :
           blocks = <<Kids("Para", kids)>>
    /\ scn = [kind |-> "any"]
    /\ WalkStart

SpecTrim == InitTrim /\ [][Next]_vars

-----------------------------------------------------------------------------
(* The walk's properties.                                                  *)

\* Every walk_multiple call that returned, and the outermost one as far as
\* it has got.
Walks == calls \o <<[index |-> 0, padding |-> 0, entries |-> Len(blocks),
                     start |-> wloc.start, end |-> wloc.end,
                     results |-> wloc.results, seen |-> wloc.seen]>>

\* The types whose walk function locates the node's own text.
LocatedTypes == {"Str", "RawInline", "RawBlock", "Code", "Math", "CodeBlock"}

\* C1: every record of the result list has 0 <= start < end <= len(text).
SpanContainment ==
    \A q \in 1..Len(results) :
        /\ 0 <= results[q].start
        /\ results[q].start < results[q].end
        /\ results[q].end <= Len(text)

\* C2: the walk never ends with an error, and an entry of unknown type adds
\* no record, raises exactly one warning and leaves the cursor alone.
NeverAborts ==
    /\ pc # "crashed"
    /\ \A c \in 1..Len(Walks) : \A q \in 1..Len(Walks[c].seen) :
           Walks[c].seen[q].type \notin types =>
               /\ Walks[c].seen[q].result = <<>>
               /\ Walks[c].seen[q].warned = 1
               /\ Walks[c].seen[q].after = Walks[c].seen[q].cursor

\* C3: an entry whose text the locator missed has no record, raised a
\* warning, and did not advance its container's cursor.
MissIsInvalid ==
    \A c \in 1..Len(Walks) : \A q \in 1..Len(Walks[c].seen) :
        /\ Walks[c].seen[q].type \in LocatedTypes
        /\ Walks[c].seen[q].misses > 0
        => /\ Walks[c].seen[q].result = <<>>
           /\ Walks[c].seen[q].warned > 0
           /\ Walks[c].seen[q].after = Walks[c].seen[q].cursor

\* The numbers of the entries of a walk_multiple call whose result was
\* taken as ordered.
OrderedOf(c) == {q \in 1..Len(c.seen) : c.seen[q].ordered}

\* C4: a walk_multiple call with padding 0 and an ordered child result
\* returns the start of its first ordered child result and the end of its
\* last one.
ParentContainment ==
    \A c \in 1..Len(calls) :
        calls[c].padding = 0 /\ OrderedOf(calls[c]) # {} =>
            /\ calls[c].start = calls[c].seen[LeastOr(OrderedOf(calls[c]), 0)].result[1].start
            /\ calls[c].end = calls[c].seen[GreatestOr(OrderedOf(calls[c]), 0)].result[1].end

\* C5: the indexes handed to the successive children of one walk_multiple
\* call never decrease.
CursorMonotone ==
    \A c \in 1..Len(Walks) : \A p, q \in 1..Len(Walks[c].seen) :
        p < q => Walks[c].seen[p].cursor <= Walks[c].seen[q].cursor

\* The records of the result list with one of the types.
RecordsOf(ts) == {q \in 1..Len(results) : results[q].type \in ts}

\* C6: the record of an inline link or image bounds the link text, the url
\* and the title in its extras, and ends just past the closing parenthesis.
LinkExtras ==
    scn.kind = "link" /\ pc = "done" =>
        \E q \in RecordsOf({"Link", "Image"}) :
            /\ results[q].end = scn.end
            /\ {"content_start", "content_end", "url_start", "url_end"}
                   \subseteq DOMAIN results[q].extras
            /\ results[q].extras.content_start = scn.content_start
            /\ results[q].extras.content_end = scn.content_end
            /\ results[q].extras.url_start = scn.url_start
            /\ results[q].extras.url_end = scn.url_end
            /\ scn.titled =>
                   /\ {"title_start", "title_end"} \subseteq DOMAIN results[q].extras
                   /\ results[q].extras.title_start = scn.title_start
                   /\ results[q].extras.title_end = scn.title_end

\* C7: the record of a fenced code block bounds exactly the code content in
\* its extras and covers the opening fence line through the closing one.
FencedContent ==
    scn.kind = "fence" /\ pc = "done" =>
        \E q \in RecordsOf({"CodeBlock"}) :
            /\ results[q].start = scn.start
            /\ results[q].end = scn.end
            /\ results[q].extras.content_start = scn.content_start
            /\ results[q].extras.content_end = scn.content_end

\* C8: the record of a footnote bounds exactly the content of the
\* footnote's definition in its extras.
FootnoteContent ==
    scn.kind = "note" /\ pc = "done" =>
        \E q \in RecordsOf({"Note"}) :
            /\ results[q].extras.type = "footnote"
            /\ {"content_start", "content_end"} \subseteq DOMAIN results[q].extras
            /\ results[q].extras.content_start = scn.content_start
            /\ results[q].extras.content_end = scn.content_end

-----------------------------------------------------------------------------
(* The locator's properties.                                               *)

\* C9: both searches return (i, i + len(s)) for a target found verbatim at
\* the start offset i, (i, i) for the empty target at a valid offset i, and
\* (-1, -1) for every range whose end j is smaller than its start i.
LocatorRoundTrip ==
    mode = "find" /\ fpc = "done" =>
        /\ sub # <<>> /\ fend = <<>> /\ fstart >= 0 /\ MatchAt(text, sub, fstart) =>
               /\ fplain = <<fstart, fstart + Len(sub)>>
               /\ fret = <<fstart, fstart + Len(sub)>>
        /\ sub = <<>> /\ fend = <<>> /\ fstart \in 0..Len(text) =>
               /\ fplain = <<fstart, fstart>>
               /\ fret = <<fstart, fstart>>
        /\ fend # <<>> /\ fend[1] < fstart =>
               /\ fplain = NotFound
               /\ fret = NotFound

\* seg splits, in order, into one piece for each character of target, a
\* piece being the character itself or a key the table maps to it, with
\* carriage returns between the pieces (after, once the first piece is past).
RECURSIVE Decodes(_, _, _)
Decodes(seg, target, after) ==
    IF target = <<>> THEN seg = <<>>
    ELSE /\ seg # <<>>
         /\ \/ seg[1] = target[1] /\ Decodes(Tail(seg), Tail(target), TRUE)
            \/ \E k \in 1..Len(escape_table) :
                   /\ escape_table[k][2] = target[1]
                   /\ MatchAt(seg, escape_table[k][1], 0)
                   /\ Decodes(SliceFrom(seg, Len(escape_table[k][1])), Tail(target), TRUE)
            \/ after /\ seg[1] = "\r" /\ Decodes(Tail(seg), target, TRUE)

\* C10: a match (s, e) of the escape-aware search is a decoding of
\* text[s:e] into the target, and e is at most the end bound of the search.
GenuineDecoding ==
    mode = "scan" /\ fpc = "done" /\ fret # NotFound =>
        /\ Decodes(Slice(text, fret[1], fret[2]), sub, FALSE)
        /\ fret[2] <= fu_end(fend)


\* The line containing offset k: from just after the last newline before k
\* (or 0) to the first newline from there on (or the end of the text).
LineContaining(k) ==
    LET s == GreatestOr({p + 1 : p \in {q \in 0..(k - 1) :
                                            q < Len(text) /\ text[q + 1] = "\n"}}, 0)
    IN <<s, LeastOr({p \in s..(Len(text) - 1) : text[p + 1] = "\n"}, Len(text))>>

\* The line utilities have returned for an index of a non-empty text.
LinesReturned ==
    mode = "lines" /\ lpc = "done" /\ text # <<>> /\ lindex \in 0..Len(text)

\* C11 as stated: for a non-empty text and an index in [0, len(text)],
\* line_before(index) is the line containing max(index - 1, 0) and
\* line_after(index) is the line containing min(index + 1, len(text) - 1).
LinesAroundIndex ==
    LinesReturned =>
        /\ lbefore = LineContaining(Max(lindex - 1, 0))
        /\ lafter = LineContaining(Min(lindex + 1, Len(text) - 1))

\* C11, amended: for a non-empty text and an index in [0, len(text)],
\* line_before(index) is the line containing max(s - 1, 0) and
\* line_after(index) is the line containing min(e + 1, len(text) - 1),
\* where [s, e) is the line containing index.
LinesAroundLine ==
    LinesReturned =>
        /\ lline = LineContaining(lindex)
        /\ lbefore = LineContaining(Max(LineContaining(lindex)[1] - 1, 0))
        /\ lafter = LineContaining(Min(LineContaining(lindex)[2] + 1, Len(text) - 1))

\* An index inside a line that has a line before it and a line after it:
\* the three utilities return three different lines.
LinesAroundLineSeen ==
    /\ LinesReturned
    /\ lindex > lline[1]
    /\ lbefore[2] < lline[1]
    /\ lafter[1] > lline[2]

\* self.text[k] is a character and not a whitespace character.
NotSpaceAt(k) == InRange(text, k) /\ ~isspace(CharAt(text, k))

\* The whitespace-trim step applied to the record's span changes nothing.
TrimIsNoOp(r) ==
    /\ NotSpaceAt(r.start)
    /\ NotSpaceAt(r.end - 1)
    /\ trim("Str", r.start, r.end) = [err |-> FALSE, start |-> r.start, end |-> r.end]

\* C12 as stated: every record whose kind is not Space, SoftBreak or
\* LineBreak, inline or block, has no whitespace character at start nor at
\* end - 1, so that trimming its span again changes nothing.
TrimIdempotence ==
    \A q \in 1..Len(results) :
        results[q].type \notin {"Space", "SoftBreak", "LineBreak"} =>
            TrimIsNoOp(results[q])

\* C12, amended: every record whose kind is one of non_spaced_types (the
\* inline kinds other than Space, SoftBreak and LineBreak) has no whitespace
\* character at text[start] nor at text[end - 1], so that trimming its span
\* again changes nothing.
InlineTrimIdempotence ==
    \A q \in RecordsOf(non_spaced_types) : TrimIsNoOp(results[q])

\* The trimming has acted: an emphasis whose span with its delimiters
\* started and ended on whitespace is recorded with the span of its content.
TrimActed ==
    \E q \in RecordsOf({"Emph"}) :
        /\ results[q].start >= 1
        /\ isspace(text[results[q].start])
        /\ results[q].end < Len(text)
        /\ isspace(text[results[q].end + 1])
        /\ results[q].extras.content_start = results[q].start
        /\ results[q].extras.content_end = results[q].end

\* The kinds of document that are Markdown text with the parse tree the
\* conversion engine gives for it.
WellFormed == {"sample", "link", "fence", "note"}

\* C13: the walk of a well-formed document does not end with an error and
\* raises no warning, neither of an unknown type nor of an invalid result.
NoWarnings ==
    scn.kind \in WellFormed => pc # "crashed" /\ warnings = <<>>

\* A mismatch after a tentative match: lines 544-547 reset the search.
ScanRestart == fpc = "loop" /\ start_match >= 0 /\ start_match' = 0 - 1

\* C14: the escape-aware search terminates for every text, target and
\* range: each restart resumes strictly to the right of the tentative match
\* start it gives up, the scan position never moves left otherwise, and the
\* call eventually returns a match or (-1, -1).
ScanTerminates ==
    /\ <>(fpc = "done")
    /\ [][/\ ScanRestart => fi' = start_match + 1
          /\ fpc = "loop" /\ ~ScanRestart => fi' >= fi]_vars

\* The search has given up a tentative match that began at start and
\* resumed to the right of it.
ScanRestarted ==
    /\ mode = "scan" /\ fpc = "loop"
    /\ Len(sub) >= 2
    /\ InRange(text, fstart)
    /\ CharAt(text, fstart) = sub[1]
    /\ index = 0 /\ start_match = 0 - 1
    /\ fi = fstart + 1
====
